---- MODULE Spec2Model ----
(***************************************************************************)
(* adview: the column decoding engine of src/src/lib.rs (DataReader,       *)
(* show_head, show_less) and the CSV export of src/src/main.rs             *)
(* (export_obs_to_csv), over a bounded family of h5ad-like containers.     *)
(*                                                                         *)
(* A call ends in one of three ways: "ok" (Ok(v)), "err" (an Err value     *)
(* handed to the caller by `?` or `return Err`), or "panic" (an index or   *)
(* slice out of range, which unwinds and aborts the program).              *)
(***************************************************************************)
EXTENDS Integers, Sequences, FiniteSets

\* Bounds of the model.
MaxFields == 2
MaxRows == 2
MaxCount == 2

Min(a, b) == IF a <= b THEN a ELSE b

Out(k, v, m) == [kind |-> k, val |-> v, msg |-> m]
Ok(v) == Out("ok", v, <<>>)
Err(m) == Out("err", <<>>, m)
Panic(m) == Out("panic", <<>>, m)

(***************************************************************************)
(* Conversions.                                                            *)
(***************************************************************************)
Digit(d) == <<"0", "1", "2", "3", "4", "5", "6", "7", "8", "9">>[d + 1]

RECURSIVE NatToString(_)
NatToString(n) ==
    IF n < 10 THEN Digit(n) ELSE NatToString(n \div 10) \o Digit(n % 10)

\* i64::to_string: decimal text, a leading '-' for negatives.
to_string(n) == IF n < 0 THEN "-" \o NatToString(0 - n) ELSE NatToString(n)

RECURSIVE join(_, _)
\* [String]::join(sep)
join(cells, sep) ==
    IF Len(cells) = 0 THEN ""
    ELSE IF Len(cells) = 1 THEN cells[1]
    ELSE cells[1] \o sep \o join(Tail(cells), sep)

(***************************************************************************)
(* The container.  A group is the ordered list of its children; a child is *)
(* a dataset, a sub-group or something that opens as neither.  Datasets    *)
(* are one-dimensional, as the obs/var columns of an h5ad file are.        *)
(***************************************************************************)
Tags == {"string-array", "categorical", "array", "mystery-type"}
NoAttr == "<no attribute>"
BadAttr == "<attribute of another type>"

\* Row k (1-based) of a string dataset, of an integer dataset, of a codes
\* dataset.
StrAt(k) == "s" \o to_string(k)
IntAt(k) == (7 * k) - 10

\* The text of row k of a string dataset and of an integer dataset.
StrText == [k \in 1..(MaxRows + 1) |-> StrAt(k)]
IntText == [k \in 1..(MaxRows + 1) |-> to_string(IntAt(k))]
CodeAt(k) == <<2, 0, 1, 0>>[((k - 1) % 4) + 1]

Cats3 == <<"a", "b", "c">>
Cats2 == <<"x", "y">>

Codes(n) == [k \in 1..n |-> CodeAt(k)]

Dataset(tag, dtype, n) ==
    [node |-> "dataset", attr |-> tag, dtype |-> dtype, len |-> n,
     hasCategories |-> FALSE, categories |-> <<>>,
     hasCodes |-> FALSE, codes |-> <<>>]

SubGroup(tag, hasCats, cats, hasCodes, codes) ==
    [node |-> "group", attr |-> tag, dtype |-> "none", len |-> 0,
     hasCategories |-> hasCats, categories |-> cats,
     hasCodes |-> hasCodes, codes |-> codes]

Other ==
    [node |-> "other", attr |-> NoAttr, dtype |-> "none", len |-> 0,
     hasCategories |-> FALSE, categories |-> <<>>,
     hasCodes |-> FALSE, codes |-> <<>>]

Lens == 0..MaxRows

\* The children a group may hold.
FieldKinds ==
    {Dataset("string-array", "str", n) : n \in Lens}
    \cup {Dataset("array", "int", n) : n \in Lens}
    \cup {Dataset("array", "str", MaxRows),
          Dataset("mystery-type", "str", MaxRows),
          Dataset("categorical", "int", MaxRows),
          Dataset(NoAttr, "str", MaxRows),
          Dataset(BadAttr, "str", MaxRows)}
    \cup {SubGroup("categorical", TRUE, Cats3, TRUE, Codes(n)) : n \in Lens}
    \cup {SubGroup("categorical", TRUE, Cats2, TRUE, Codes(MaxRows)),
          SubGroup("categorical", FALSE, <<>>, TRUE, Codes(MaxRows)),
          SubGroup("categorical", TRUE, Cats3, FALSE, <<>>),
          SubGroup("mystery-type", FALSE, <<>>, TRUE, Codes(MaxRows)),
          SubGroup("mystery-type", FALSE, <<>>, FALSE, <<>>),
          SubGroup("string-array", FALSE, <<>>, TRUE, Codes(MaxRows)),
          SubGroup(NoAttr, TRUE, Cats3, TRUE, Codes(MaxRows))}
    \cup {Other}

\* Child names in listing order: y1, x2, y3, ... (not sorted).
Names == [i \in 1..(MaxFields + 1) |-> (IF i % 2 = 1 THEN "y" ELSE "x") \o to_string(i)]

NameAt(i) == Names[i]

Files ==
    {[hasGroup |-> FALSE, children |-> <<>>]}
    \cup UNION {{[hasGroup |-> TRUE, children |-> ks] :
                    ks \in [1..n -> FieldKinds]} : n \in 0..MaxFields}

(***************************************************************************)
(* The container library (hdf5), as the code calls it.                     *)
(***************************************************************************)
\* file.group(group_name)
file_group(f) ==
    IF f.hasGroup THEN Ok(f.children) ELSE Err(<<"hdf5: group not found">>)

\* group.member_names(): the names in listing order.
member_names(group) == [i \in 1..Len(group) |-> NameAt(i)]

\* The child of group called name.
Child(group, name) ==
    group[CHOOSE i \in 1..Len(group) : NameAt(i) = name]

\* group.dataset(name)
group_dataset(group, name) ==
    IF Child(group, name).node = "dataset" THEN Ok(Child(group, name))
    ELSE Err(<<"hdf5: not a dataset", name>>)

\* group.group(name)
group_group(group, name) ==
    IF Child(group, name).node = "group" THEN Ok(Child(group, name))
    ELSE Err(<<"hdf5: not a group", name>>)

\* node.attr("encoding-type")?.read_scalar::<VarLenUnicode>()?
read_encoding_type(node) ==
    IF node.attr \in Tags THEN Ok(node.attr)
    ELSE Err(<<"hdf5: encoding-type", node.attr>>)

\* The elements of a dataset read as type want ("str" or "int"), converted
\* to text by to_string.
Elements(ds, want) ==
    [k \in 1..ds.len |-> IF want = "str" THEN StrText[k] ELSE IntText[k]]

\* dataset.read_1d::<T>() followed by to_string on every element.
read_1d(ds, want) ==
    IF ds.dtype = want THEN Ok(Elements(ds, want))
    ELSE Err(<<"hdf5: type conversion">>)

\* dataset.read_slice_1d::<T, _>(start..end) followed by to_string.  What the
\* library does with an empty or reversed range that lies outside the
\* dataset is not fixed by this repository: lax = TRUE returns no elements,
\* lax = FALSE is an error.
read_slice_1d(ds, want, start, end, lax) ==
    IF ds.dtype # want THEN Err(<<"hdf5: type conversion">>)
    ELSE IF start <= end /\ end <= ds.len
         THEN Ok(SubSeq(Elements(ds, want), start + 1, end))
    ELSE IF start >= end /\ lax THEN Ok(<<>>)
    ELSE Err(<<"hdf5: slice out of bounds">>)

(***************************************************************************)
(* DataReader (src/src/lib.rs).                                            *)
(***************************************************************************)
\* Variant: the row count is taken from every field, the last one winning.
first_rows_every(i, total_rows, n) == n

\* `if i == 0 { total_rows = ... }`: only the first field sets the row count
\* (i is the 0-based position of the field, n the length it reports).
first_rows(i, total_rows, n) == IF i = 0 THEN n ELSE total_rows

\* The match of DataReader::new: the encoding-type tag of the field called
\* name at 0-based position i, and the row count after it.
probe(group, name, i, total_rows) ==
    LET ds == group_dataset(group, name)
    IN  IF ds.kind = "ok"
        THEN LET tag == read_encoding_type(ds.val)
             IN  IF tag.kind = "ok"
                 THEN Ok([tag |-> tag.val,
                          total_rows |-> first_rows(i, total_rows, ds.val.len)])
                 ELSE tag
        ELSE LET sg == group_group(group, name)
             IN  IF sg.kind # "ok" THEN sg
                 ELSE IF i = 0 /\ ~sg.val.hasCodes
                      THEN Err(<<"hdf5: not a dataset", "codes">>)
                 ELSE LET tag == read_encoding_type(sg.val)
                      IN  IF tag.kind = "ok"
                          THEN Ok([tag |-> tag.val,
                                   total_rows |->
                                       first_rows(i, total_rows,
                                                  Len(sg.val.codes))])
                          ELSE tag

NoCategorical == [some |-> FALSE, categories |-> <<>>, codes |-> <<>>]

\* Variant: a categorical field that does not resolve is kept as None
\* instead of failing the construction.
materialize_lenient(group, name, tag) ==
    LET sg == group_group(group, name)
    IN  IF tag = "categorical" /\ sg.kind = "ok"
           /\ sg.val.hasCategories /\ sg.val.hasCodes
        THEN Ok([some |-> TRUE, categories |-> sg.val.categories,
                 codes |-> sg.val.codes])
        ELSE Ok(NoCategorical)

\* The categorical_data entry of a field: Some((categories, codes)) for a
\* "categorical" tag, None otherwise.
materialize(group, name, tag) ==
    IF tag = "categorical"
    THEN LET sg == group_group(group, name)
         IN  IF sg.kind # "ok" THEN sg
             ELSE IF ~sg.val.hasCategories
                  THEN Err(<<"hdf5: not a dataset", "categories">>)
             ELSE IF ~sg.val.hasCodes
                  THEN Err(<<"hdf5: not a dataset", "codes">>)
             ELSE Ok([some |-> TRUE, categories |-> sg.val.categories,
                      codes |-> sg.val.codes])
    ELSE Ok(NoCategorical)

RECURSIVE new_loop(_, _, _, _, _)
\* The for loop of DataReader::new from the field at 1-based position k on.
new_loop(group, k, total_rows, encoding_types, categorical_data) ==
    IF k > Len(group)
    THEN Ok([headers |-> member_names(group), group |-> group,
             total_rows |-> total_rows, encoding_types |-> encoding_types,
             categorical_data |-> categorical_data])
    ELSE LET name == member_names(group)[k]
             p == probe(group, name, k - 1, total_rows)
         IN  IF p.kind # "ok" THEN p
             ELSE LET m == materialize(group, name, p.val.tag)
                  IN  IF m.kind # "ok" THEN m
                      ELSE new_loop(group, k + 1, p.val.total_rows,
                                    Append(encoding_types, p.val.tag),
                                    Append(categorical_data, m.val))

\* DataReader::new(file, group_name)
new(f) ==
    LET g == file_group(f)
    IN  IF g.kind # "ok" THEN g ELSE new_loop(g.val, 1, 0, <<>>, <<>>)

\* Variant: the first column is left out of the headers.
get_headers_tail(r) == IF Len(r.headers) = 0 THEN <<>> ELSE Tail(r.headers)

\* DataReader::get_headers
get_headers(r) == r.headers

\* DataReader::total_rows
total_rows_of(r) == r.total_rows

\* Variant: an inclusive end, one row too many.
chunk_end_incl(start, chunk_size, total_rows) ==
    Min(start + chunk_size + 1, total_rows)

\* let end = (start + chunk_size).min(self.total_rows)
chunk_end(start, chunk_size, total_rows) == Min(start + chunk_size, total_rows)

\* Variant: the codes are taken from the head of the buffer, codes[..end -
\* start], whatever start is.
decode_categorical_head(categories, codes, start, end) ==
    IF start > end \/ end > Len(codes)
    THEN Panic(<<"slice index out of range", "lib.rs:88">>)
    ELSE IF \E k \in 1..(end - start) : codes[k] >= Len(categories)
         THEN Panic(<<"index out of bounds", "lib.rs:90">>)
    ELSE Ok([k \in 1..(end - start) |-> categories[codes[k] + 1]])

\* codes[start..end].iter().map(|&code| categories[code as usize].clone()):
\* the slice panics when the range is reversed or ends past the buffer, the
\* index panics on a code outside the category table.
decode_categorical(categories, codes, start, end) ==
    IF start > end \/ end > Len(codes)
    THEN Panic(<<"slice index out of range", "lib.rs:88">>)
    ELSE IF \E k \in (start + 1)..end : codes[k] >= Len(categories)
         THEN Panic(<<"index out of bounds", "lib.rs:90">>)
    ELSE Ok([k \in 1..(end - start) |-> categories[codes[start + k] + 1]])

\* One arm of the match in read_chunk: the column of field k over
\* [start, end).
read_field(r, k, start, end, lax) ==
    LET name == r.headers[k]
        encoding_type == r.encoding_types[k]
    IN  CASE encoding_type = "string-array" ->
                LET ds == group_dataset(r.group, name)
                IN  IF ds.kind # "ok" THEN ds
                    ELSE read_slice_1d(ds.val, "str", start, end, lax)
          [] encoding_type = "categorical" ->
                IF r.categorical_data[k].some
                THEN decode_categorical(r.categorical_data[k].categories,
                                        r.categorical_data[k].codes, start, end)
                ELSE Err(<<"Categorical data not found">>)
          [] encoding_type = "array" ->
                LET ds == group_dataset(r.group, name)
                IN  IF ds.kind # "ok" THEN ds
                    ELSE read_slice_1d(ds.val, "int", start, end, lax)
          [] OTHER -> Err(<<"Unsupported encoding-type: ", encoding_type>>)

RECURSIVE read_chunk_loop(_, _, _, _, _, _)
\* The for loop of read_chunk from field k on; chunk_data holds the columns
\* pushed so far and is dropped when a field fails.
read_chunk_loop(r, k, start, end, lax, chunk_data) ==
    IF k > Min(Len(r.headers), Len(r.encoding_types)) THEN Ok(chunk_data)
    ELSE LET data == read_field(r, k, start, end, lax)
         IN  IF data.kind # "ok" THEN data
             ELSE read_chunk_loop(r, k + 1, start, end, lax,
                                  Append(chunk_data, data.val))

\* DataReader::read_chunk(start, chunk_size)
read_chunk(r, start, chunk_size, lax) ==
    read_chunk_loop(r, 1, start, chunk_end(start, chunk_size, r.total_rows),
                    lax, <<>>)

(***************************************************************************)
(* Row projection and the commands.                                        *)
(***************************************************************************)
\* for row_idx in 0..n { chunk_data.iter().map(|col| col[row_idx].clone()) }:
\* the rows emitted, and a panic at the first row some column does not have
\* (site is the source line of the indexing).
project(cols, n, site) ==
    LET short == {r \in 1..n : \E c \in 1..Len(cols) : Len(cols[c]) < r}
        good == IF short = {} THEN n
                ELSE (CHOOSE r \in short : \A q \in short : r <= q) - 1
        rows == [r \in 1..good |-> [c \in 1..Len(cols) |-> cols[c][r]]]
    IN  IF short = {} THEN Ok(rows)
        ELSE Out("panic", rows, <<"index out of bounds", site>>)

\* The lines printed for rows: row.join("\t")
lines_of(rows) == [k \in 1..Len(rows) |-> join(rows[k], "\t")]

\* show_head(file, group_name, lines); val is what was printed.
show_head(f, lines, lax) ==
    LET r == new(f)
    IN  IF r.kind # "ok" THEN Out(r.kind, <<>>, r.msg)
        ELSE LET header == join(get_headers(r.val), "\t")
                 chunk_data == read_chunk(r.val, 0, lines, lax)
             IN  IF chunk_data.kind # "ok"
                 THEN Out(chunk_data.kind, <<header>>, chunk_data.msg)
                 ELSE LET rows == project(chunk_data.val,
                                          Min(lines, total_rows_of(r.val)),
                                          "lib.rs:131")
                      IN  Out(rows.kind, <<header>> \o lines_of(rows.val),
                              rows.msg)

\* Variant: the next chunk starts one row late.
next_start_gap(start, chunk_size) == start + chunk_size + 1

\* start += CHUNK_SIZE
next_start(start, chunk_size) == start + chunk_size

\* One iteration of the while loop of show_less: the rows of the chunk at
\* start (chunk_data[0] panics on a chunk without columns).
less_chunk(r, start, chunk_size, lax) ==
    LET chunk_data == read_chunk(r, start, chunk_size, lax)
    IN  IF chunk_data.kind # "ok" THEN chunk_data
        ELSE IF Len(chunk_data.val) = 0
             THEN Panic(<<"index out of bounds", "lib.rs:157">>)
        ELSE LET rows == project(chunk_data.val, Len(chunk_data.val[1]),
                                 "lib.rs:158")
             IN  Out(rows.kind, lines_of(rows.val), rows.msg)

\* The encoding-type tag of a member, as export_obs_to_csv probes it.
export_tag(group, name) ==
    LET ds == group_dataset(group, name)
    IN  IF ds.kind = "ok" THEN read_encoding_type(ds.val)
        ELSE LET g == group_group(group, name)
             IN  IF g.kind # "ok" THEN g ELSE read_encoding_type(g.val)

\* codes.iter().map(|&code| categories[code as usize].clone()) over the
\* whole codes dataset.
export_decode(categories, codes) ==
    IF \E k \in 1..Len(codes) : codes[k] >= Len(categories)
    THEN Panic(<<"index out of bounds", "main.rs:215">>)
    ELSE Ok([k \in 1..Len(codes) |-> categories[codes[k] + 1]])

\* The column of one member, read in full.
export_column(group, name) ==
    LET tag == export_tag(group, name)
    IN  IF tag.kind # "ok" THEN tag
        ELSE CASE tag.val = "string-array" ->
                    LET ds == group_dataset(group, name)
                    IN  IF ds.kind # "ok" THEN ds ELSE read_1d(ds.val, "str")
               [] tag.val = "categorical" ->
                    LET g == group_group(group, name)
                    IN  IF g.kind # "ok" THEN g
                        ELSE IF ~g.val.hasCategories
                             THEN Err(<<"hdf5: not a dataset", "categories">>)
                        ELSE IF ~g.val.hasCodes
                             THEN Err(<<"hdf5: not a dataset", "codes">>)
                        ELSE export_decode(g.val.categories, g.val.codes)
               [] tag.val = "array" ->
                    LET ds == group_dataset(group, name)
                    IN  IF ds.kind # "ok" THEN ds ELSE read_1d(ds.val, "int")
               [] OTHER -> Err(<<"Unsupported encoding-type: ", tag.val>>)

RECURSIVE export_loop(_, _, _)
\* The for loop over member_names from member k on.
export_loop(group, k, all_data) ==
    IF k > Len(group) THEN Ok(all_data)
    ELSE LET data == export_column(group, member_names(group)[k])
         IN  IF data.kind # "ok" THEN data
             ELSE export_loop(group, k + 1, Append(all_data, data.val))

\* export_obs_to_csv(file, output); val is the records handed to the CSV
\* writer, the header record first.
export_obs_to_csv(f) ==
    LET g == file_group(f)
    IN  IF g.kind # "ok" THEN Out(g.kind, <<>>, g.msg)
        ELSE LET header == member_names(g.val)
                 all_data == export_loop(g.val, 1, <<>>)
             IN  IF all_data.kind # "ok"
                 THEN Out(all_data.kind, <<header>>, all_data.msg)
                 ELSE IF Len(all_data.val) = 0
                      THEN Out("panic", <<header>>,
                               <<"index out of bounds", "main.rs:236">>)
                 ELSE LET rows == project(all_data.val, Len(all_data.val[1]),
                                          "main.rs:237")
                      IN  Out(rows.kind, <<header>> \o rows.val, rows.msg)

VARIABLES file, pc, reader, call, res, hdrs, out

vars == <<file, pc, reader, call, res, hdrs, out>>

None == Out("none", <<>>, <<>>)
NoCall == [op |-> "none", start |-> 0, count |-> 0]

Init ==
    /\ file \in Files
    /\ pc = "init"
    /\ reader = None
    /\ call = NoCall
    /\ res = None
    /\ hdrs = <<>>
    /\ out = <<>>

\* A caller builds a reader: DataReader::new(file, group_name).
Build ==
    /\ pc = "init"
    /\ reader' = new(file)
    /\ pc' = IF reader'.kind = "ok" THEN "idle" ELSE "exit"
    /\ call' = [op |-> "new", start |-> 0, count |-> 0]
    /\ UNCHANGED <<file, res, hdrs, out>>

\* reader.read_chunk(start, count), with start up to one past the row count;
\* start + count stays far below usize::MAX, so the sum does not wrap.
ReadChunk ==
    /\ pc = "idle"
    /\ \E start \in 0..(MaxRows + 1), count \in 0..MaxCount, lax \in BOOLEAN :
          /\ res' = read_chunk(reader.val, start, count, lax)
          /\ call' = [op |-> "read_chunk", start |-> start, count |-> count]
    /\ pc' = "chunk"
    /\ UNCHANGED <<file, reader, hdrs, out>>

\* reader.get_headers(), on a fresh reader or after a read.
GetHeaders ==
    /\ pc \in {"idle", "chunk"}
    /\ hdrs' = get_headers(reader.val)
    /\ pc' = "headers"
    /\ UNCHANGED <<file, reader, call, res, out>>

\* The caller is done with the last result and keeps the reader.
Return ==
    /\ pc \in {"chunk", "headers"}
    /\ pc' = "idle"
    /\ call' = NoCall
    /\ res' = None
    /\ hdrs' = <<>>
    /\ UNCHANGED <<file, reader, out>>

\* adview obs-head -n lines
ShowHead ==
    /\ pc = "init"
    /\ \E lines \in 0..(MaxRows + 1), lax \in BOOLEAN :
          /\ res' = show_head(file, lines, lax)
          /\ call' = [op |-> "show_head", start |-> 0, count |-> lines]
    /\ out' = res'.val
    /\ pc' = "exit"
    /\ UNCHANGED <<file, reader, hdrs>>

\* show_less up to its loop: the reader is built and the header line written
\* (the chunk size, 1000 in the source, is drawn from 1..MaxCount).
LessBegin ==
    /\ pc = "init"
    /\ reader' = new(file)
    /\ \E chunk_size \in 1..MaxCount :
          call' = [op |-> "show_less", start |-> 0, count |-> chunk_size]
    /\ IF reader'.kind = "ok"
       THEN /\ out' = <<join(get_headers(reader'.val), "\t")>>
            /\ pc' = "less"
            /\ res' = None
       ELSE /\ out' = <<>>
            /\ pc' = "exit"
            /\ res' = Out(reader'.kind, <<>>, reader'.msg)
    /\ UNCHANGED <<file, hdrs>>

\* One iteration of `while start < reader.total_rows()`.
LessStep ==
    /\ pc = "less"
    /\ call.start < total_rows_of(reader.val)
    /\ \E lax \in BOOLEAN :
          LET c == less_chunk(reader.val, call.start, call.count, lax)
          IN  /\ out' = out \o c.val
              /\ IF c.kind = "ok"
                 THEN /\ call' = [call EXCEPT
                                    !.start = next_start(call.start, call.count)]
                      /\ pc' = "less"
                      /\ res' = None
                 ELSE /\ call' = call
                      /\ pc' = "exit"
                      /\ res' = Out(c.kind, <<>>, c.msg)
    /\ UNCHANGED <<file, reader, hdrs>>

\* The loop ends: Ok(()).
LessDone ==
    /\ pc = "less"
    /\ ~(call.start < total_rows_of(reader.val))
    /\ pc' = "exit"
    /\ res' = Ok(<<>>)
    /\ UNCHANGED <<file, reader, call, hdrs, out>>

\* adview export-obs
ExportObs ==
    /\ pc = "init"
    /\ res' = export_obs_to_csv(file)
    /\ out' = res'.val
    /\ call' = [op |-> "export_obs", start |-> 0, count |-> 0]
    /\ pc' = "exit"
    /\ UNCHANGED <<file, reader, hdrs>>

Next ==
    \/ Build
    \/ ReadChunk
    \/ GetHeaders
    \/ Return
    \/ ShowHead
    \/ LessBegin
    \/ LessStep
    \/ LessDone
    \/ ExportObs

Spec == Init /\ [][Next]_vars

(***************************************************************************)
(* The properties.  What a read should return is stated from the container *)
(* (file), not from the reader's own operators.                            *)
(***************************************************************************)
Fields == 1..Len(file.children)

Listing == [k \in Fields |-> Names[k]]

Supported == {"string-array", "categorical", "array"}

\* The length the first listed child reports: its own when it is a dataset,
\* that of its codes when it is a sub-group.
FirstLen ==
    IF Len(file.children) = 0 THEN 0
    ELSE IF file.children[1].node = "dataset" THEN file.children[1].len
    ELSE Len(file.children[1].codes)

\* Every field is stored the way its tag says, has the table's row count and,
\* when categorical, only codes inside its category table.
WellFormed ==
    /\ file.hasGroup
    /\ Len(file.children) >= 1
    /\ \A k \in Fields :
          LET c == file.children[k]
          IN  \/ /\ c.node = "dataset" /\ c.attr = "string-array"
                 /\ c.dtype = "str" /\ c.len = FirstLen
              \/ /\ c.node = "dataset" /\ c.attr = "array"
                 /\ c.dtype = "int" /\ c.len = FirstLen
              \/ /\ c.node = "group" /\ c.attr = "categorical"
                 /\ c.hasCategories /\ c.hasCodes
                 /\ Len(c.codes) = FirstLen
                 /\ \A j \in 1..Len(c.codes) : c.codes[j] < Len(c.categories)

\* The end of the range a read_chunk call covers.
RangeEnd == Min(call.start + call.count, reader.val.total_rows)

ZipRows(cols, n) == [r \in 1..n |-> [c \in 1..Len(cols) |-> cols[c][r]]]

\* ReadWholeColumnSet: ReadChunk(catalog, 0, rowCount).
WholeTable == read_chunk(reader.val, 0, reader.val.total_rows, FALSE)

\* Every field before field k decodes over the range of the call.
EarlierFieldsDecode(k) ==
    \A i \in 1..(k - 1) :
        read_field(reader.val, i, call.start, RangeEnd, FALSE).kind = "ok"

Mentions(msg, word) == \E i \in 1..Len(msg) : msg[i] = word

\* C1: when show_less has paged through a table in chunks of count rows
\* (start = 0, count, 2*count, ... while start < R), the rows it emitted are
\* exactly the rows of the whole-table read ReadChunk(0, R), each once and in
\* order; paging fails only if the whole-table read fails.
C1_ChunkCoverage ==
    (pc = "exit" /\ call.op = "show_less" /\ reader.kind = "ok") =>
        /\ WholeTable.kind = "ok" =>
              /\ res.kind = "ok"
              /\ out = <<join(Listing, "\t")>>
                          \o lines_of(ZipRows(WholeTable.val,
                                              reader.val.total_rows))
        /\ (res.kind = "ok" /\ reader.val.total_rows > 0) =>
              WholeTable.kind = "ok"

\* Two fields and two rows were paged one row at a time.
C1_Witness ==
    /\ pc = "exit" /\ call.op = "show_less" /\ res.kind = "ok"
    /\ call.count = 1
    /\ reader.kind = "ok" /\ reader.val.total_rows = 2
    /\ Len(reader.val.headers) = 2
    /\ Len(out) = 3

\* C2: on a well-formed table whose fields are string-array, categorical or
\* array, a ReadChunk with start >= rowCount returns one zero-length column
\* per field and does not fail (under one behaviour of the library's slice
\* read or the other).
C2_BoundaryChunk ==
    (call.op = "read_chunk" /\ WellFormed
        /\ call.start >= reader.val.total_rows) =>
        \E lax \in BOOLEAN :
            LET r == read_chunk(reader.val, call.start, call.count, lax)
            IN  /\ r.kind = "ok"
                /\ Len(r.val) = Len(file.children)
                /\ \A k \in Fields : r.val[k] = <<>>

\* C3: a read whose range holds a code outside the category table of a
\* categorical field (the fields before it decoding) ends with an error value
\* returned to the caller, not with a panic, and returns no column data.
C3_OutOfRangeCode ==
    (call.op = "read_chunk"
        /\ \E k \in Fields :
              LET c == file.children[k]
              IN  /\ c.attr = "categorical"
                  /\ call.start <= RangeEnd /\ RangeEnd <= Len(c.codes)
                  /\ \E j \in (call.start + 1)..RangeEnd :
                        c.codes[j] >= Len(c.categories)
                  /\ EarlierFieldsDecode(k)) =>
        (res.kind = "err" /\ res.val = <<>>)

\* C4: a read that reaches a field whose tag is none of "string-array",
\* "categorical", "array" fails with an error that names both the tag and the
\* field.
C4_UnsupportedEncoding ==
    (call.op = "read_chunk"
        /\ \E k \in Fields :
              /\ file.children[k].attr \notin Supported
              /\ EarlierFieldsDecode(k)) =>
        /\ res.kind = "err"
        /\ \A k \in Fields :
              (file.children[k].attr \notin Supported /\ EarlierFieldsDecode(k))
                  => (Mentions(res.msg, file.children[k].attr)
                        /\ Mentions(res.msg, Names[k]))

\* C5: a successful ReadChunk with start <= rowCount returns one column per
\* field, in field order, each of length min(count, rowCount - start); and
\* the row projection of show_head and show_less never indexes past the end
\* of a column.
C5_ChunkShape ==
    /\ (call.op = "read_chunk" /\ res.kind = "ok"
            /\ call.start <= reader.val.total_rows) =>
          /\ Len(res.val) = Len(file.children)
          /\ \A k \in Fields :
                LET n == Min(call.count, reader.val.total_rows - call.start)
                IN  /\ Len(res.val[k]) = n
                    /\ file.children[k].attr = "string-array" =>
                          res.val[k] = [j \in 1..n |-> StrAt(call.start + j)]
                    /\ file.children[k].attr = "array" =>
                          res.val[k] =
                              [j \in 1..n |-> to_string(IntAt(call.start + j))]
    /\ (call.op = "show_head" /\ res.kind = "ok") =>
          Len(out) = 1 + Min(call.count, FirstLen)
    /\ (call.op \in {"show_head", "show_less"} /\ res.kind = "panic") =>
          res.msg[2] \notin {"lib.rs:131", "lib.rs:157", "lib.rs:158"}

\* A read of two fields from row 1 on, clamped to the one row that is left.
C5_Witness ==
    /\ call.op = "read_chunk" /\ res.kind = "ok"
    /\ call.start = 1 /\ call.count = 2
    /\ reader.val.total_rows = 2
    /\ Len(res.val) = 2
    /\ Len(res.val[1]) = 1 /\ Len(res.val[2]) = 1

\* C6: for a categorical field and a range start <= end <= rowCount that the
\* codes cover and in which every code is inside the category table, the
\* field decodes to the end - start values categories[codes[start + i]].
C6_CategoricalDecoding ==
    call.op = "read_chunk" =>
        \A k \in Fields :
            LET c == file.children[k]
            IN  (/\ c.attr = "categorical"
                 /\ call.start <= RangeEnd /\ RangeEnd <= Len(c.codes)
                 /\ \A j \in (call.start + 1)..RangeEnd :
                       c.codes[j] < Len(c.categories)) =>
                    LET expected ==
                            [i \in 1..(RangeEnd - call.start) |->
                                c.categories[c.codes[call.start + i] + 1]]
                    IN  /\ \A lax \in BOOLEAN :
                              read_field(reader.val, k, call.start, RangeEnd,
                                         lax) = Ok(expected)
                        /\ res.kind = "ok" => res.val[k] = expected

\* Categories [a, b, c] and codes [2, 0] were read from row 1 on, as the
\* second field of a table.
C6_Witness ==
    /\ call.op = "read_chunk" /\ res.kind = "ok"
    /\ call.start = 1 /\ call.count = 1
    /\ Len(file.children) >= 2
    /\ file.children[2].attr = "categorical"
    /\ file.children[2].codes = <<2, 0>>
    /\ res.val[2] = <<"a">>

\* C7: a built reader holds the names of the group's listing, in listing
\* order, with each field's tag and categorical buffers, in every state that
\* follows its construction, and get_headers returns exactly that listing on
\* every call, also after reads that succeeded or failed.
C7_HeaderOrder ==
    /\ reader.kind = "ok" =>
          /\ reader.val.headers = Listing
          /\ Len(reader.val.encoding_types) = Len(file.children)
          /\ \A k \in Fields :
                /\ reader.val.encoding_types[k] = file.children[k].attr
                /\ file.children[k].attr = "categorical" =>
                      /\ reader.val.categorical_data[k].categories
                            = file.children[k].categories
                      /\ reader.val.categorical_data[k].codes
                            = file.children[k].codes
    /\ pc = "headers" => hdrs = Listing

\* The headers of two fields were asked for after a read that failed.
C7_Witness ==
    /\ pc = "headers"
    /\ call.op = "read_chunk" /\ res.kind = "err"
    /\ Len(hdrs) >= 2

\* C8: the row count of a built reader is the length of the first listed
\* field (of its codes when it is a sub-group), whatever the later fields'
\* lengths are.
C8_RowCountAgreement ==
    (reader.kind = "ok" /\ Len(file.children) >= 1) =>
        reader.val.total_rows = FirstLen

\* A reader over a categorical first field and a dataset of another length.
C8_Witness ==
    /\ reader.kind = "ok"
    /\ Len(file.children) >= 2
    /\ file.children[1].node = "group"
    /\ file.children[2].node = "dataset"
    /\ file.children[2].len # Len(file.children[1].codes)
    /\ reader.val.total_rows = Len(file.children[1].codes)

\* What makes construction fail: no group, a child that is neither dataset
\* nor sub-group, an encoding-type that is missing or unreadable, or a
\* categorical field without its sub-group, categories or codes.
BuildMustFail ==
    \/ ~file.hasGroup
    \/ \E k \in Fields :
          LET c == file.children[k]
          IN  \/ c.node = "other"
              \/ c.attr \notin Tags
              \/ /\ c.attr = "categorical"
                 /\ (c.node # "group" \/ ~c.hasCategories \/ ~c.hasCodes)

\* C9: when any field, at any position, cannot be resolved, DataReader::new
\* returns an error and no reader.
C9_AllOrNothing ==
    (reader.kind # "none" /\ BuildMustFail) =>
        (reader.kind = "err" /\ reader.val = <<>>)

\* Construction failed on the second field, a categorical sub-group without
\* categories, after a first field that resolved.
C9_Witness ==
    /\ reader.kind = "err"
    /\ Len(file.children) >= 2
    /\ file.children[1].node = "dataset"
    /\ file.children[1].attr = "string-array"
    /\ file.children[2].node = "group"
    /\ file.children[2].attr = "categorical"
    /\ ~file.children[2].hasCategories

\* C10: export_obs_to_csv succeeds exactly when building the reader and
\* reading the whole table succeed, and then writes the header record
\* get_headers and the rowCount rows zipped from ReadChunk(0, rowCount).
C10_ExportAgrees ==
    call.op = "export_obs" =>
        LET cat == new(file)
            whole == IF cat.kind = "ok"
                     THEN read_chunk(cat.val, 0, cat.val.total_rows, FALSE)
                     ELSE cat
        IN  /\ whole.kind = "ok" =>
                  /\ res.kind = "ok"
                  /\ out = <<get_headers(cat.val)>>
                              \o ZipRows(whole.val, cat.val.total_rows)
            /\ whole.kind # "ok" => res.kind # "ok"
====
